---- MODULE Spec2Model ----
(***************************************************************************)
(* A model of ordered_set.py: the OrderedSet class, a MutableSet that      *)
(* keeps its elements in a list (self.items) and the index of each element *)
(* in a dict (self.map).  Every method is an operator computed the way the *)
(* method's code computes it; the actions apply the methods to a container *)
(* `self` held in the variables items and map.                             *)
(***************************************************************************)
EXTENDS Integers, Sequences, FiniteSets, TLC

\* ---------------------------------------------------------------- bounds
MaxElem == 3        \* the elements are 1..MaxElem
MaxIterLen == 3     \* longest iterable passed as the one argument of a method
MaxSets == 2        \* most iterables passed to a *sets method
MaxArgLen == 3      \* most elements in the iterables of a *sets method together

Keys == 1..MaxElem

VARIABLES items,    \* self.items: the list of elements
          map,      \* self.map: element -> index in self.items (from 0)
          op,       \* name of the method just called, "idle" between calls
          key,      \* its key or index argument (0 when it has none)
          arg,      \* its iterable arguments, a sequence of iterables
          pre,      \* the container before the call
          ret,      \* what the call returned or raised
          held      \* the container object a call handed back to the caller

vars == <<items, map, op, key, arg, pre, ret, held>>

\* ------------------------------------------------------------- helpers
Range(s) == {s[i] : i \in 1..Len(s)}

SeqsUpTo(S, n) == UNION {[1..m -> S] : m \in 0..n}

\* The list `s` without the slot at (1-based) position p: del s[p-1].
DelAt(s, p) == [j \in 1..(Len(s) - 1) |-> IF j < p THEN s[j] ELSE s[j + 1]]

\* [x for x in s if x in S]
RECURSIVE Filter(_, _)
Filter(s, S) ==
  IF s = <<>> THEN <<>>
  ELSE IF Head(s) \in S THEN <<Head(s)>> \o Filter(Tail(s), S)
       ELSE Filter(Tail(s), S)

\* it.chain.from_iterable over a sequence of lists
RECURSIVE Chain(_)
Chain(ss) == IF ss = <<>> THEN <<>> ELSE Head(ss) \o Chain(Tail(ss))

\* --------------------------------------------------- values of the model
\* A dict with no entry.
EmptyMap == [k \in {} |-> 0]

\* A container: the two views of one OrderedSet object.
OSet(its, mp) == [items |-> its, map |-> mp]

\* The return value None; a returned value v is <<v>>.
None == <<>>

\* What a call gives back: the receiver after the call, the exception raised
\* ("" when none), the returned value and the returned container.
Result(s, err, val, out) == [self |-> s, err |-> err, val |-> val, out |-> out]

\* An iterable argument.  kind "list": any iterable yielding elems;
\* "oset": an OrderedSet whose items are elems; "bad": an object whose
\* iteration yields elems and then raises TypeError (a non-iterable yields
\* nothing); "self": the receiver itself; "none": the argument None.
Iter(kind, elems) == [kind |-> kind, elems |-> elems]

Lists == {Iter("list", e) : e \in SeqsUpTo(Keys, MaxIterLen)}
Bads == {Iter("bad", e) : e \in SeqsUpTo(Keys, MaxIterLen)}
Self == Iter("self", <<>>)
NoArg == Iter("none", <<>>)

\* list(x) for an iterable argument x of the container s
ListOf(s, x) == IF x.kind = "self" THEN s.items ELSE x.elems

\* set(x)
SetOf(s, x) == Range(ListOf(s, x))

\* ------------------------------------------------------------- methods
\* add recording the length after the append as the index
add_late(s, k) ==
  LET s1 == IF k \notin DOMAIN s.map
            THEN OSet(Append(s.items, k),
                      [e \in DOMAIN s.map \cup {k} |->
                         IF e = k THEN Len(s.items) + 1 ELSE s.map[e]])
            ELSE s
  IN Result(s1, "", <<s1.map[k]>>, s1)

\* add without the membership test
add_always(s, k) ==
  LET s1 == OSet(Append(s.items, k),
                 [e \in DOMAIN s.map \cup {k} |->
                    IF e = k THEN Len(s.items) ELSE s.map[e]])
  IN Result(s1, "", <<s1.map[k]>>, s1)

\* OrderedSet.add
add(s, k) ==
  LET s1 == IF k \notin DOMAIN s.map
            THEN OSet(Append(s.items, k),
                      [e \in DOMAIN s.map \cup {k} |->
                         IF e = k THEN Len(s.items) ELSE s.map[e]])
            ELSE s
  IN Result(s1, "", <<s1.map[k]>>, s1)

\* MutableSet.__ior__, as __init__ uses it: add every value of the iterable
RECURSIVE ior(_, _)
ior(s, seq) ==
  IF seq = <<>> THEN s ELSE ior(add(s, Head(seq)).self, Tail(seq))

\* OrderedSet.__init__: OrderedSet(iterable)
OrderedSet(s, x) ==
  LET new == OSet(<<>>, EmptyMap)
  IN IF x.kind = "none" THEN new ELSE ior(new, ListOf(s, x))

\* OrderedSet.copy
copy(s) == OrderedSet(s, Self)

\* The element None.
NoneKey == 0

\* A pickled state: a tuple or a list of elements; the two never compare
\* equal, whatever they hold.
State(type, elems) == [type |-> type, elems |-> elems]

\* (None,), the state of the empty container
EmptyMarker == State("tuple", <<NoneKey>>)

\* OrderedSet.__getstate__
getstate(s) ==
  IF Len(s.items) = 0 THEN EmptyMarker ELSE State("list", s.items)

\* __setstate__ taking every state that holds just None for the marker
setstate_loose(state) ==
  IF state.elems = <<NoneKey>>
  THEN OrderedSet(OSet(<<>>, EmptyMap), Iter("list", <<>>))
  ELSE OrderedSet(OSet(<<>>, EmptyMap), Iter("list", state.elems))

\* OrderedSet.__setstate__, on the object the unpickler has just created
setstate(state) ==
  IF state = EmptyMarker
  THEN OrderedSet(OSet(<<>>, EmptyMap), Iter("list", <<>>))
  ELSE OrderedSet(OSet(<<>>, EmptyMap), Iter("list", state.elems))

\* The loop of update remembering the index of the last item it inserted
RECURSIVE updateLoop_inserted(_, _, _)
updateLoop_inserted(s, seq, item_index) ==
  IF seq = <<>> THEN Result(s, "", item_index, s)
  ELSE LET r == add(s, Head(seq))
       IN updateLoop_inserted(r.self, Tail(seq),
            IF Head(seq) \in DOMAIN s.map THEN item_index ELSE r.val)

\* The loop of update: add each item, remembering the last index returned.
RECURSIVE updateLoop(_, _, _)
updateLoop(s, seq, item_index) ==
  IF seq = <<>> THEN Result(s, "", item_index, s)
  ELSE LET r == add(s, Head(seq))
       IN updateLoop(r.self, Tail(seq), r.val)

\* OrderedSet.update
update(s, x) ==
  LET r == updateLoop(s, ListOf(s, x), None)
  IN IF x.kind = "bad" THEN Result(r.self, "ValueError", None, r.self)
     ELSE r

\* OrderedSet.index, for a single key
index(s, k) ==
  IF k \in DOMAIN s.map THEN Result(s, "", <<s.map[k]>>, s)
  ELSE Result(s, "KeyError", None, s)

\* OrderedSet.__getitem__, for an integer index
getitem(s, i) ==
  LET n == Len(s.items)
  IN IF i >= 0 /\ i < n THEN Result(s, "", <<s.items[i + 1]>>, s)
     ELSE IF i < 0 /\ i >= -n THEN Result(s, "", <<s.items[n + i + 1]>>, s)
     ELSE Result(s, "IndexError", None, s)

\* pop that leaves the entry of the element in the dict
pop_keepkey(s) ==
  IF s.items = <<>> THEN Result(s, "KeyError", None, s)
  ELSE LET elem == s.items[Len(s.items)]
           s1 == OSet(DelAt(s.items, Len(s.items)), s.map)
       IN Result(s1, "", <<elem>>, s1)

\* A bound of a slice as list slicing reads it for a list of length n.
SliceBound(i, n) ==
  IF i < 0 THEN (IF i + n < 0 THEN 0 ELSE i + n) ELSE (IF i > n THEN n ELSE i)

\* OrderedSet.__getitem__, for the slice lo:hi
getslice(s, lo, hi) ==
  LET n == Len(s.items)
      result == SubSeq(s.items, SliceBound(lo, n) + 1, SliceBound(hi, n))
  IN OrderedSet(s, Iter("list", result))

\* OrderedSet.__getitem__, for an iterable of indices
getindices(s, indices) ==
  LET n == Len(s.items)
  IN IF \E j \in 1..Len(indices) : indices[j] >= n \/ indices[j] < -n
     THEN Result(s, "IndexError", None, s)
     ELSE Result(s, "", None,
            OrderedSet(s, Iter("list",
              [j \in 1..Len(indices) |->
                 s.items[(IF indices[j] < 0 THEN n + indices[j] ELSE indices[j]) + 1]])))

\* OrderedSet.pop
pop(s) ==
  IF s.items = <<>> THEN Result(s, "KeyError", None, s)
  ELSE LET elem == s.items[Len(s.items)]
           s1 == OSet(DelAt(s.items, Len(s.items)),
                      [e \in DOMAIN s.map \ {elem} |-> s.map[e]])
       IN Result(s1, "", <<elem>>, s1)

\* discard that leaves the entry of the key in the dict
discard_keepkey(s, k) ==
  IF k \in DOMAIN s.map
  THEN LET i == s.map[k]
       IN OSet(DelAt(s.items, i + 1),
               [e \in DOMAIN s.map |->
                  IF s.map[e] >= i THEN s.map[e] - 1 ELSE s.map[e]])
  ELSE s

\* discard renumbering from the second slot after the removed one
discard_skip(s, k) ==
  IF k \in DOMAIN s.map
  THEN LET i == s.map[k]
       IN OSet(DelAt(s.items, i + 1),
               [e \in DOMAIN s.map \ {k} |->
                  IF s.map[e] > i + 1 THEN s.map[e] - 1 ELSE s.map[e]])
  ELSE s

\* discard lowering every stored index
discard_shiftall(s, k) ==
  IF k \in DOMAIN s.map
  THEN LET i == s.map[k]
       IN OSet(DelAt(s.items, i + 1),
               [e \in DOMAIN s.map \ {k} |-> s.map[e] - 1])
  ELSE s

\* OrderedSet.discard
discard(s, k) ==
  IF k \in DOMAIN s.map
  THEN LET i == s.map[k]
       IN OSet(DelAt(s.items, i + 1),
               [e \in DOMAIN s.map \ {k} |->
                  IF s.map[e] >= i THEN s.map[e] - 1 ELSE s.map[e]])
  ELSE s

\* MutableSet.remove: discard, but KeyError when the key is absent
remove(s, k) ==
  IF k \notin DOMAIN s.map THEN Result(s, "KeyError", None, s)
  ELSE LET s1 == discard(s, k) IN Result(s1, "", None, s1)

\* OrderedSet.clear
clear(s) == OSet(<<>>, EmptyMap)

\* union chaining the other containers before self
union_selflast(s, sets) ==
  LET containers == [j \in 1..Len(sets) |-> ListOf(s, sets[j])] \o <<s.items>>
      its == Chain(containers)
  IN OrderedSet(s, Iter("list", its))

\* OrderedSet.union
union(s, sets) ==
  LET containers == <<s.items>> \o [j \in 1..Len(sets) |-> ListOf(s, sets[j])]
      its == Chain(containers)
  IN OrderedSet(s, Iter("list", its))

\* set.intersection(*sets) of one or more sets
RECURSIVE SetIntersection(_)
SetIntersection(ss) ==
  IF Len(ss) = 1 THEN Head(ss) ELSE Head(ss) \cap SetIntersection(Tail(ss))

\* intersection keeping what is in the first of the others only
intersection_first(s, sets) ==
  IF sets # <<>>
  THEN LET common == SetOf(s, sets[1])
       IN OrderedSet(s, Iter("list", Filter(s.items, common)))
  ELSE OrderedSet(s, Self)

\* OrderedSet.intersection
intersection(s, sets) ==
  IF sets # <<>>
  THEN LET common == SetIntersection([j \in 1..Len(sets) |-> SetOf(s, sets[j])])
       IN OrderedSet(s, Iter("list", Filter(s.items, common)))
  ELSE OrderedSet(s, Self)

\* OrderedSet.difference; set.intersection() without a set is a TypeError
difference(s, sets) ==
  IF sets = <<>> THEN Result(s, "TypeError", None, s)
  ELSE LET other == SetIntersection([j \in 1..Len(sets) |-> SetOf(s, sets[j])])
           out == OrderedSet(s, Iter("list", Filter(s.items, Keys \ other)))
       IN Result(s, "", None, out)

\* OrderedSet.issubset; len(other) counts the repeated elements of other
issubset(s, other) ==
  IF Len(s.items) > Len(ListOf(s, other)) THEN FALSE
  ELSE \A i \in 1..Len(s.items) : s.items[i] \in SetOf(s, other)

\* OrderedSet.issuperset
issuperset(s, other) ==
  IF Len(s.items) < Len(ListOf(s, other)) THEN FALSE
  ELSE \A i \in 1..Len(ListOf(s, other)) : ListOf(s, other)[i] \in DOMAIN s.map

\* symmetric_difference returning diff2.union(diff1)
symmetric_difference_swapped(s, other) ==
  LET diff1 == difference(copy(s), <<other>>).out
      o == OrderedSet(s, other)
      diff2 == difference(o, <<Iter("oset", s.items)>>).out
  IN union(diff2, <<Iter("oset", diff1.items)>>)

\* OrderedSet.symmetric_difference
symmetric_difference(s, other) ==
  LET diff1 == difference(copy(s), <<other>>).out
      o == OrderedSet(s, other)
      diff2 == difference(o, <<Iter("oset", s.items)>>).out
  IN union(diff1, <<Iter("oset", diff2.items)>>)

\* __eq__ comparing the lists whatever the other collection is
eq_ordered(s, other) ==
  IF other.kind = "bad" THEN FALSE
  ELSE Len(s.items) = Len(ListOf(s, other)) /\ s.items = ListOf(s, other)

\* OrderedSet.__eq__
eq(s, other) ==
  IF other.kind \in {"oset", "self"}
  THEN Len(s.items) = Len(ListOf(s, other)) /\ s.items = ListOf(s, other)
  ELSE IF other.kind = "bad" THEN FALSE
  ELSE Range(s.items) = SetOf(s, other)

\* for item in seq: self.discard(item), seq a list of its own
RECURSIVE discardAll(_, _)
discardAll(s, seq) ==
  IF seq = <<>> THEN s ELSE discardAll(discard(s, Head(seq)), Tail(seq))

\* for item in self: self.discard(item): the list iterator reads
\* self.items[pos] for pos = 0, 1, ... until pos reaches the current length,
\* while discard shortens the list under it.
RECURSIVE discardWhileIterating(_, _)
discardWhileIterating(s, pos) ==
  IF pos >= Len(s.items) THEN s
  ELSE discardWhileIterating(discard(s, s.items[pos + 1]), pos + 1)

\* difference_update discarding the items of the first of the sets only
difference_update_first(s, sets) ==
  IF sets = <<>> THEN s
  ELSE IF Head(sets).kind = "self" THEN discardWhileIterating(s, 0)
  ELSE discardAll(s, Head(sets).elems)

\* OrderedSet.difference_update
RECURSIVE difference_update(_, _)
difference_update(s, sets) ==
  IF sets = <<>> THEN s
  ELSE LET s1 == IF Head(sets).kind = "self" THEN discardWhileIterating(s, 0)
                 ELSE discardAll(s, Head(sets).elems)
       IN difference_update(s1, Tail(sets))

\* for item in self: if item not in S: self.discard(item), without the
\* list to_remove
RECURSIVE discardOthersWhileIterating(_, _, _)
discardOthersWhileIterating(s, pos, S) ==
  IF pos >= Len(s.items) THEN s
  ELSE discardOthersWhileIterating(
         IF s.items[pos + 1] \in S THEN s ELSE discard(s, s.items[pos + 1]),
         pos + 1, S)

\* intersection_update discarding while it iterates over self
intersection_update_lazy(s, other) ==
  discardOthersWhileIterating(s, 0, SetOf(s, other))

\* OrderedSet.intersection_update
intersection_update(s, other) ==
  LET to_remove == Filter(s.items, Keys \ SetOf(s, other))
  IN discardAll(s, to_remove)

\* symmetric_difference_update computing diff2 after self was changed
symmetric_difference_update_late(s, other) ==
  LET s1 == difference_update(s, <<other>>)
      diff2 == difference(OrderedSet(s, other), <<Iter("oset", s1.items)>>).out
  IN update(s1, Iter("oset", diff2.items)).self

\* OrderedSet.symmetric_difference_update
symmetric_difference_update(s, other) ==
  LET diff2 == difference(OrderedSet(s, other), <<Iter("oset", s.items)>>).out
      s1 == difference_update(s, <<other>>)
  IN update(s1, Iter("oset", diff2.items)).self

\* ------------------------------------------------------------- actions
\* The container the methods are called on.
self == OSet(items, map)

\* What ret keeps of a call.
Returned(r) == [err |-> r.err, val |-> r.val, out |-> r.out]

NoReturn == [err |-> "", val |-> None, out |-> OSet(<<>>, EmptyMap)]

\* The list and the dict a container object is made of are objects of their
\* own.  __init__ binds self.items to a new list and self.map to a new dict.
SharedObjects == [items |-> "self", map |-> "self"]

NewObjects == [items |-> "new", map |-> "new"]

\* The object OrderedSet(...) gives for the container c: its list and its
\* dict, and what they hold.
Handle(c) == [obj |-> NewObjects, items |-> c.items, map |-> c.map]

NoHeld == [obj |-> [items |-> "none", map |-> "none"],
           items |-> <<>>, map |-> EmptyMap]

\* What the held container holds: a list or a dict it shares with the
\* receiver is read from the receiver.
View(h) ==
  OSet(IF h.obj.items = "self" THEN items ELSE h.items,
       IF h.obj.map = "self" THEN map ELSE h.map)

\* The containers a single add, discard, pop or clear makes of c.
Mutations(c) ==
  {add(c, k).self : k \in Keys} \cup {discard(c, k) : k \in Keys}
    \cup {pop(c).self, clear(c)}

\* The argument lists of a *sets method: at most MaxSets lists that hold at
\* most MaxArgLen elements together, as the consecutive parts of one list.
Parts(flat, cut) ==
  [j \in 1..Len(cut) |->
     Iter("list", SubSeq(flat, (IF j = 1 THEN 0 ELSE cut[j - 1]) + 1, cut[j]))]

Cuts(len, n) ==
  {c \in [1..n -> 0..len] : c[n] = len /\ \A j \in 1..(n - 1) : c[j] <= c[j + 1]}

ArgLists ==
  {<<>>} \cup UNION {UNION {{Parts(flat, c) : c \in Cuts(Len(flat), n)} : n \in 1..MaxSets} :
                       flat \in SeqsUpTo(Keys, MaxArgLen)}

\* The same with the receiver itself in the place of an empty list.
ArgListsWithSelf ==
  ArgLists \cup
    UNION {{[a EXCEPT ![p] = Self] : p \in {q \in 1..Len(a) : a[q].elems = <<>>}} :
             a \in ArgLists}

\* The OrderedSets an argument can be.
OSets == {Iter("oset", OrderedSet(OSet(<<>>, EmptyMap), x).items) : x \in Lists}

\* The container as constructed with no argument; no method called yet.
Init ==
  /\ items = <<>>
  /\ map = EmptyMap
  /\ op = "idle"
  /\ key = 0
  /\ arg = <<>>
  /\ pre = OSet(<<>>, EmptyMap)
  /\ ret = NoReturn
  /\ held = NoHeld

\* self = OrderedSet(iterable)
Construct ==
  /\ op = "idle"
  /\ UNCHANGED held
  /\ \E x \in Lists \cup {NoArg} :
       LET s1 == OrderedSet(self, x)
       IN /\ items' = s1.items /\ map' = s1.map
          /\ op' = "new" /\ key' = 0 /\ arg' = <<x>> /\ pre' = self
          /\ ret' = Returned(Result(s1, "", None, s1))

Add ==
  /\ op = "idle"
  /\ UNCHANGED held
  /\ \E k \in Keys :
       LET r == add(self, k)
       IN /\ items' = r.self.items /\ map' = r.self.map
          /\ op' = "add" /\ key' = k /\ arg' = <<>> /\ pre' = self
          /\ ret' = Returned(r)

Update ==
  /\ op = "idle"
  /\ UNCHANGED held
  /\ \E x \in Lists \cup Bads :
       LET r == update(self, x)
       IN /\ items' = r.self.items /\ map' = r.self.map
          /\ op' = "update" /\ key' = 0 /\ arg' = <<x>> /\ pre' = self
          /\ ret' = Returned(r)

Discard ==
  /\ op = "idle"
  /\ UNCHANGED held
  /\ \E k \in Keys :
       LET s1 == discard(self, k)
       IN /\ items' = s1.items /\ map' = s1.map
          /\ op' = "discard" /\ key' = k /\ arg' = <<>> /\ pre' = self
          /\ ret' = Returned(Result(s1, "", None, s1))

Remove ==
  /\ op = "idle"
  /\ UNCHANGED held
  /\ \E k \in Keys :
       LET r == remove(self, k)
       IN /\ items' = r.self.items /\ map' = r.self.map
          /\ op' = "remove" /\ key' = k /\ arg' = <<>> /\ pre' = self
          /\ ret' = Returned(r)

Pop ==
  /\ op = "idle"
  /\ UNCHANGED held
  /\ LET r == pop(self)
     IN /\ items' = r.self.items /\ map' = r.self.map
        /\ op' = "pop" /\ key' = 0 /\ arg' = <<>> /\ pre' = self
        /\ ret' = Returned(r)

Clear ==
  /\ op = "idle"
  /\ UNCHANGED held
  /\ LET s1 == clear(self)
     IN /\ items' = s1.items /\ map' = s1.map
        /\ op' = "clear" /\ key' = 0 /\ arg' = <<>> /\ pre' = self
        /\ ret' = Returned(Result(s1, "", None, s1))

Index ==
  /\ op = "idle"
  /\ UNCHANGED held
  /\ \E k \in Keys :
       LET r == index(self, k)
       IN /\ items' = r.self.items /\ map' = r.self.map
          /\ op' = "index" /\ key' = k /\ arg' = <<>> /\ pre' = self
          /\ ret' = Returned(r)

GetItem ==
  /\ op = "idle"
  /\ UNCHANGED held
  /\ \E i \in (-(MaxElem + 1))..(MaxElem + 1) :
       LET r == getitem(self, i)
       IN /\ items' = r.self.items /\ map' = r.self.map
          /\ op' = "getitem" /\ key' = i /\ arg' = <<>> /\ pre' = self
          /\ ret' = Returned(r)

Eq ==
  /\ op = "idle"
  /\ UNCHANGED held
  /\ \E x \in Lists \cup Bads \cup OSets :
       /\ op' = "eq" /\ key' = 0 /\ arg' = <<x>> /\ pre' = self
       /\ ret' = Returned(Result(self, "", <<eq(self, x)>>, self))
       /\ UNCHANGED <<items, map>>

Union ==
  /\ op = "idle"
  /\ UNCHANGED held
  /\ \E a \in ArgLists :
       /\ op' = "union" /\ key' = 0 /\ arg' = a /\ pre' = self
       /\ ret' = Returned(Result(self, "", None, union(self, a)))
       /\ UNCHANGED <<items, map>>

Intersection ==
  /\ op = "idle"
  /\ UNCHANGED held
  /\ \E a \in ArgLists :
       /\ op' = "intersection" /\ key' = 0 /\ arg' = a /\ pre' = self
       /\ ret' = Returned(Result(self, "", None, intersection(self, a)))
       /\ UNCHANGED <<items, map>>

Difference ==
  /\ op = "idle"
  /\ UNCHANGED held
  /\ \E a \in ArgLists :
       /\ op' = "difference" /\ key' = 0 /\ arg' = a /\ pre' = self
       /\ ret' = Returned(difference(self, a))
       /\ UNCHANGED <<items, map>>

IsSubset ==
  /\ op = "idle"
  /\ UNCHANGED held
  /\ \E x \in Lists \cup OSets :
       /\ op' = "issubset" /\ key' = 0 /\ arg' = <<x>> /\ pre' = self
       /\ ret' = Returned(Result(self, "", <<issubset(self, x)>>, self))
       /\ UNCHANGED <<items, map>>

IsSuperset ==
  /\ op = "idle"
  /\ UNCHANGED held
  /\ \E x \in Lists \cup OSets :
       /\ op' = "issuperset" /\ key' = 0 /\ arg' = <<x>> /\ pre' = self
       /\ ret' = Returned(Result(self, "", <<issuperset(self, x)>>, self))
       /\ UNCHANGED <<items, map>>

SymmetricDifference ==
  /\ op = "idle"
  /\ UNCHANGED held
  /\ \E x \in Lists :
       /\ op' = "symmetric_difference" /\ key' = 0 /\ arg' = <<x>> /\ pre' = self
       /\ ret' = Returned(Result(self, "", None, symmetric_difference(self, x)))
       /\ UNCHANGED <<items, map>>

DifferenceUpdate ==
  /\ op = "idle"
  /\ UNCHANGED held
  /\ \E a \in ArgListsWithSelf :
       LET s1 == difference_update(self, a)
       IN /\ items' = s1.items /\ map' = s1.map
          /\ op' = "difference_update" /\ key' = 0 /\ arg' = a /\ pre' = self
          /\ ret' = Returned(Result(s1, "", None, s1))

IntersectionUpdate ==
  /\ op = "idle"
  /\ UNCHANGED held
  /\ \E x \in Lists \cup {Self} :
       LET s1 == intersection_update(self, x)
       IN /\ items' = s1.items /\ map' = s1.map
          /\ op' = "intersection_update" /\ key' = 0 /\ arg' = <<x>> /\ pre' = self
          /\ ret' = Returned(Result(s1, "", None, s1))

SymmetricDifferenceUpdate ==
  /\ op = "idle"
  /\ UNCHANGED held
  /\ \E x \in Lists \cup {Self} :
       LET s1 == symmetric_difference_update(self, x)
       IN /\ items' = s1.items /\ map' = s1.map
          /\ op' = "symmetric_difference_update" /\ key' = 0 /\ arg' = <<x>>
          /\ pre' = self
          /\ ret' = Returned(Result(s1, "", None, s1))

\* The caller has the result of the call and goes on: the record of the
\* call is dropped, the container stays.
Return ==
  /\ op # "idle"
  /\ UNCHANGED held
  /\ op' = "idle" /\ key' = 0 /\ arg' = <<>>
  /\ pre' = OSet(<<>>, EmptyMap)
  /\ ret' = NoReturn
  /\ UNCHANGED <<items, map>>

Next ==
  \/ Construct
  \/ Add
  \/ Update
  \/ Discard
  \/ Remove
  \/ Pop
  \/ Clear
  \/ Index
  \/ GetItem
  \/ Eq
  \/ Union
  \/ Intersection
  \/ Difference
  \/ SymmetricDifference
  \/ IsSubset
  \/ IsSuperset
  \/ DifferenceUpdate
  \/ IntersectionUpdate
  \/ SymmetricDifferenceUpdate
  \/ Return

Spec == Init /\ [][Next]_vars

\* ------------------------------------------------------------ pickling
\* A container constructed from any bounded list, None among its elements,
\* is serialized and the state is deserialized into a new object, ret.out.
InitPickle ==
  \E e \in SeqsUpTo(Keys \cup {NoneKey}, MaxIterLen) :
    LET s0 == OrderedSet(OSet(<<>>, EmptyMap), Iter("list", e))
    IN /\ items = s0.items
       /\ map = s0.map
       /\ op = "new"
       /\ key = 0
       /\ arg = <<Iter("list", e)>>
       /\ pre = OSet(<<>>, EmptyMap)
       /\ ret = Returned(Result(s0, "", None, s0))
       /\ held = NoHeld

GetState ==
  /\ op = "new"
  /\ UNCHANGED held
  /\ op' = "getstate" /\ key' = 0 /\ arg' = <<>> /\ pre' = self
  /\ ret' = Returned(Result(self, "", <<getstate(self)>>, self))
  /\ UNCHANGED <<items, map>>

SetState ==
  /\ op = "getstate"
  /\ UNCHANGED held
  /\ op' = "setstate" /\ key' = 0 /\ arg' = <<ret.val[1]>> /\ pre' = self
  /\ ret' = Returned(Result(self, "", None, setstate(ret.val[1])))
  /\ UNCHANGED <<items, map>>

NextPickle ==
  \/ GetState
  \/ SetState

SpecPickle == InitPickle /\ [][NextPickle]_vars

\* ----------------------------------------------------------- ownership
\* A container built by the constructor has one of the methods that return
\* a container called on it; then the caller changes the returned container
\* or the receiver.
InitOwn ==
  \E x \in Lists :
    LET s0 == OrderedSet(OSet(<<>>, EmptyMap), x)
    IN /\ items = s0.items
       /\ map = s0.map
       /\ op = "idle"
       /\ key = 0
       /\ arg = <<>>
       /\ pre = OSet(<<>>, EmptyMap)
       /\ ret = NoReturn
       /\ held = NoHeld

Copy ==
  /\ op = "idle"
  /\ op' = "copy" /\ key' = 0 /\ arg' = <<>> /\ pre' = self
  /\ ret' = Returned(Result(self, "", None, copy(self)))
  /\ held' = Handle(copy(self))
  /\ UNCHANGED <<items, map>>

GetSlice ==
  /\ op = "idle"
  /\ \E lo, hi \in (-MaxElem)..(MaxElem + 1) :
       /\ op' = "getslice" /\ key' = lo /\ arg' = <<Iter("list", <<lo, hi>>)>>
       /\ pre' = self
       /\ ret' = Returned(Result(self, "", None, getslice(self, lo, hi)))
       /\ held' = Handle(getslice(self, lo, hi))
       /\ UNCHANGED <<items, map>>

GetIndices ==
  /\ op = "idle"
  /\ \E indices \in SeqsUpTo((-MaxElem)..(MaxElem - 1), MaxSets) :
       LET r == getindices(self, indices)
       IN /\ op' = "getindices" /\ key' = 0 /\ arg' = <<Iter("list", indices)>>
          /\ pre' = self
          /\ ret' = Returned(r)
          /\ held' = IF r.err = "" THEN Handle(r.out) ELSE NoHeld
          /\ UNCHANGED <<items, map>>

UnionOne ==
  /\ op = "idle"
  /\ \E x \in OSets :
       /\ op' = "union" /\ key' = 0 /\ arg' = <<x>> /\ pre' = self
       /\ ret' = Returned(Result(self, "", None, union(self, <<x>>)))
       /\ held' = Handle(union(self, <<x>>))
       /\ UNCHANGED <<items, map>>

IntersectionOne ==
  /\ op = "idle"
  /\ \E x \in OSets :
       /\ op' = "intersection" /\ key' = 0 /\ arg' = <<x>> /\ pre' = self
       /\ ret' = Returned(Result(self, "", None, intersection(self, <<x>>)))
       /\ held' = Handle(intersection(self, <<x>>))
       /\ UNCHANGED <<items, map>>

DifferenceOne ==
  /\ op = "idle"
  /\ \E x \in OSets :
       /\ op' = "difference" /\ key' = 0 /\ arg' = <<x>> /\ pre' = self
       /\ ret' = Returned(difference(self, <<x>>))
       /\ held' = Handle(difference(self, <<x>>).out)
       /\ UNCHANGED <<items, map>>

SymmetricDifferenceOne ==
  /\ op = "idle"
  /\ \E x \in OSets :
       /\ op' = "symmetric_difference" /\ key' = 0 /\ arg' = <<x>> /\ pre' = self
       /\ ret' = Returned(Result(self, "", None, symmetric_difference(self, x)))
       /\ held' = Handle(symmetric_difference(self, x))
       /\ UNCHANGED <<items, map>>

\* The methods above.
Copiers ==
  {"copy", "getslice", "getindices", "union", "intersection", "difference",
   "symmetric_difference"}

\* The caller changes the container it was handed: the change is written to
\* the list and the dict that container is made of.
MutateHeld ==
  /\ op \in Copiers
  /\ ret.err = ""
  /\ \E c \in Mutations(View(held)) :
       /\ items' = IF held.obj.items = "self" THEN c.items ELSE items
       /\ map' = IF held.obj.map = "self" THEN c.map ELSE map
       /\ held' = [held EXCEPT
                     !.items = IF held.obj.items = "self" THEN @ ELSE c.items,
                     !.map = IF held.obj.map = "self" THEN @ ELSE c.map]
  /\ op' = "mutate_held" /\ pre' = self
  /\ UNCHANGED <<key, arg, ret>>

\* The caller changes the receiver.
MutateSelf ==
  /\ op \in Copiers
  /\ ret.err = ""
  /\ \E c \in Mutations(self) : items' = c.items /\ map' = c.map
  /\ op' = "mutate_self" /\ pre' = self
  /\ UNCHANGED <<key, arg, ret, held>>

NextOwn ==
  \/ Copy
  \/ GetSlice
  \/ GetIndices
  \/ UnionOne
  \/ IntersectionOne
  \/ DifferenceOne
  \/ SymmetricDifferenceOne
  \/ MutateHeld
  \/ MutateSelf

SpecOwn == InitOwn /\ [][NextOwn]_vars

\* ================================================================ claims
NoDuplicate(s) == \A i, j \in 1..Len(s) : i # j => s[i] # s[j]

\* The two views of the container c agree.
Consistent(c) ==
  /\ NoDuplicate(c.items)
  /\ DOMAIN c.map = Range(c.items)
  /\ \A i \in 1..Len(c.items) : c.map[c.items[i]] = i - 1

\* The position of the first occurrence of e in seq.
FirstIdx(seq, e) ==
  CHOOSE i \in 1..Len(seq) : seq[i] = e /\ \A j \in 1..(i - 1) : seq[j] # e

\* r holds the elements of seq that are in S, once each, ordered by their
\* first occurrence in seq.
IsFirstOccurrences(r, seq, S) ==
  /\ NoDuplicate(r)
  /\ Range(r) = Range(seq) \cap S
  /\ \A a, b \in 1..Len(r) : a < b => FirstIdx(seq, r[a]) < FirstIdx(seq, r[b])

\* The elements of all the lists of the arguments a.
ArgElems(a) == UNION {Range(a[j].elems) : j \in 1..Len(a)}

\* C1: after every sequence of public mutations the two views agree: the
\* sequence has no duplicate, the keys of the position map are the elements
\* of the sequence, and the map stores the index of every element.
C1_ViewsAgree == Consistent(self)

\* A discard (alone or inside an in-place update) has renumbered elements.
C1_Witness ==
  /\ op \in {"discard", "difference_update", "symmetric_difference_update"}
  /\ Len(items) >= 1
  /\ \E e \in DOMAIN map \cap DOMAIN pre.map : map[e] < pre.map[e]

\* C2: a container constructed from a list holds each distinct element of
\* the list once, in the order of the first occurrences; constructed with
\* no argument it is empty.
C2_Construct ==
  op = "new" =>
    IF arg[1].kind = "none" THEN items = <<>> /\ map = EmptyMap
    ELSE IsFirstOccurrences(items, arg[1].elems, Keys)

\* Construction from a list where an element repeats after another element.
C2_Witness ==
  /\ op = "new"
  /\ arg[1].kind = "list"
  /\ Len(items) >= 2
  /\ \E i, j \in 1..Len(arg[1].elems) :
       /\ i + 1 < j
       /\ arg[1].elems[i] = arg[1].elems[j]
       /\ arg[1].elems[i + 1] # arg[1].elems[i]

\* C3: add of an absent key appends it at index len() and returns that
\* index; add of a present key changes neither view and returns the index
\* the key already had.
C3_Add ==
  op = "add" =>
    IF key \in Range(pre.items)
    THEN /\ items = pre.items
         /\ map = pre.map
         /\ ret.val = <<pre.map[key]>>
    ELSE /\ items = Append(pre.items, key)
         /\ DOMAIN map = DOMAIN pre.map \cup {key}
         /\ \A e \in DOMAIN pre.map : map[e] = pre.map[e]
         /\ map[key] = Len(pre.items)
         /\ ret.val = <<Len(pre.items)>>

\* add of the key that sits last in a container of two or more elements:
\* it returns that index again.
C3_Witness ==
  /\ op = "add"
  /\ pre.items # <<>>
  /\ pre.items[Len(pre.items)] = key
  /\ Len(pre.items) >= 2
  /\ ret.val = <<Len(pre.items) - 1>>

\* C4: discard of a key held at index i removes it from both views, keeps
\* the index of the elements before i, lowers by one the index of those
\* after i, keeps the relative order and lowers len() by one; discard of an
\* absent key changes nothing and does not fail.
C4_Discard ==
  op = "discard" =>
    IF key \in DOMAIN pre.map
    THEN LET i == pre.map[key]
         IN /\ key \notin DOMAIN map
            /\ key \notin Range(items)
            /\ DOMAIN map = DOMAIN pre.map \ {key}
            /\ Len(items) = Len(pre.items) - 1
            /\ \A e \in DOMAIN map :
                 /\ map[e] = IF pre.map[e] < i THEN pre.map[e] ELSE pre.map[e] - 1
                 /\ items[map[e] + 1] = e
            /\ \A e, f \in DOMAIN map : pre.map[e] < pre.map[f] => map[e] < map[f]
    ELSE /\ items = pre.items
         /\ map = pre.map
         /\ ret.err = ""

\* discard of the middle element of three.
C4_Witness ==
  /\ op = "discard"
  /\ Len(pre.items) >= 3
  /\ key \in DOMAIN pre.map
  /\ pre.map[key] >= 1
  /\ pre.map[key] < Len(pre.items) - 1

\* C5: union returns the concatenation of self and of each other, in
\* argument order, with every later duplicate removed.
C5_Union ==
  op = "union" =>
    /\ IsFirstOccurrences(ret.out.items,
                          items \o Chain([j \in 1..Len(arg) |-> arg[j].elems]), Keys)
    /\ Consistent(ret.out)

\* A union of self and two others that drops a duplicate of an element of
\* self and appends a new element of each of the others.
C5_Witness ==
  /\ op = "union"
  /\ Len(arg) = 2
  /\ items # <<>>
  /\ Range(arg[1].elems) \cap Range(items) # {}
  /\ Range(arg[1].elems) \ Range(items) # {}
  /\ Range(arg[2].elems) \ (Range(items) \cup Range(arg[1].elems)) # {}

\* C6: difference returns the elements of self that occur in none of the
\* others, in self's order, for every list of others.
C6_Difference ==
  op = "difference" =>
    /\ ret.err = ""
    /\ IsFirstOccurrences(ret.out.items, items, Keys \ ArgElems(arg))

\* C7: intersection without others returns a copy of self; with others it
\* returns the elements of self that occur in every one of them, in self's
\* order.
C7_Intersection ==
  op = "intersection" =>
    /\ Consistent(ret.out)
    /\ IF arg = <<>> THEN ret.out.items = items
       ELSE IsFirstOccurrences(ret.out.items, items,
              {e \in Keys : \A j \in 1..Len(arg) : e \in Range(arg[j].elems)})

\* An intersection with two others that differ, which keeps some elements
\* of self but fewer than the first of the others alone would.
C7_Witness ==
  /\ op = "intersection"
  /\ Len(arg) = 2
  /\ Range(arg[1].elems) # Range(arg[2].elems)
  /\ ret.out.items # <<>>
  /\ Len(ret.out.items) < Len(items)
  /\ Range(items) \cap Range(arg[1].elems) # Range(ret.out.items)

\* C8: symmetric_difference returns the elements of self not in other, in
\* self's order, followed by the elements of other not in self, by first
\* occurrence in other.
C8_SymmetricDifference ==
  op = "symmetric_difference" =>
    LET o == arg[1].elems
        n == Cardinality(Range(items) \ Range(o))
        out == ret.out.items
    IN /\ Len(out) = n + Cardinality(Range(o) \ Range(items))
       /\ IsFirstOccurrences(SubSeq(out, 1, n), items, Keys \ Range(o))
       /\ IsFirstOccurrences(SubSeq(out, n + 1, Len(out)), o, Keys \ Range(items))
       /\ Range(out) = (Range(items) \ Range(o)) \cup (Range(o) \ Range(items))
       /\ Consistent(ret.out)

\* Both parts are non-empty and a common element is dropped.
C8_Witness ==
  /\ op = "symmetric_difference"
  /\ Range(items) \cap Range(arg[1].elems) # {}
  /\ Range(items) \ Range(arg[1].elems) # {}
  /\ Range(arg[1].elems) \ Range(items) # {}

\* C9: equals with another ordered container is true exactly when both have
\* the same length and the same element at every index; with any other
\* collection, exactly when both have the same set of elements.
C9_Equals ==
  op = "eq" =>
    LET o == arg[1].elems
    IN /\ arg[1].kind = "oset" =>
            (ret.val = <<TRUE>>) =
              (Len(items) = Len(o) /\ \A i \in 1..Len(items) : items[i] = o[i])
       /\ arg[1].kind = "list" =>
            (ret.val = <<TRUE>>) = (Range(items) = Range(o))

\* Equal to a plain list that holds the same elements in another order.
C9_Witness ==
  /\ op = "eq"
  /\ arg[1].kind = "list"
  /\ ret.val = <<TRUE>>
  /\ Len(items) = 2
  /\ arg[1].elems # items

\* C10: every failing call leaves the sequence and the position map as they
\* were before the call.
C10_FailureChangesNothing ==
  ret.err # "" => items = pre.items /\ map = pre.map

\* C11: pop on a non-empty container returns the element at index len()-1,
\* removes it from both views and leaves every other element at its index;
\* pop on an empty container fails with the error of the empty container.
C11_Pop ==
  op = "pop" =>
    IF pre.items = <<>>
    THEN ret.err = "KeyError" /\ items = <<>> /\ map = EmptyMap
    ELSE LET last == pre.items[Len(pre.items)]
         IN /\ ret.err = ""
            /\ ret.val = <<last>>
            /\ pre.map[last] = Len(pre.items) - 1
            /\ items = SubSeq(pre.items, 1, Len(pre.items) - 1)
            /\ DOMAIN map = DOMAIN pre.map \ {last}
            /\ \A e \in DOMAIN map : map[e] = pre.map[e]

\* pop on a container of two or more elements.
C11_Witness ==
  /\ op = "pop"
  /\ Len(pre.items) >= 2
  /\ ret.err = ""
  /\ Len(items) = Len(pre.items) - 1

C13_DifferenceUpdate ==
  (op = "difference_update" /\ \A j \in 1..Len(arg) : arg[j].kind = "list") =>
    /\ IsFirstOccurrences(items, pre.items, Keys \ ArgElems(arg))
    /\ Consistent(self)

\* difference_update with two others that each remove an element of their
\* own, leaving an element behind them at a lower index.
C13_Witness ==
  /\ op = "difference_update"
  /\ Len(arg) = 2
  /\ arg[1].kind = "list" /\ arg[2].kind = "list"
  /\ Range(arg[1].elems) \cap Range(pre.items) # {}
  /\ (Range(arg[2].elems) \cap Range(pre.items)) \ Range(arg[1].elems) # {}
  /\ \E e \in DOMAIN map : map[e] = pre.map[e] - 2

\* C14: intersection_update(other) leaves self holding the elements it held
\* that occur in other, in their previous order; the sequence is the one
\* intersection(other) returns on the state before the call.
C14_IntersectionUpdate ==
  op = "intersection_update" =>
    /\ IsFirstOccurrences(items, pre.items, SetOf(pre, arg[1]))
    /\ items = intersection(pre, arg).items
    /\ Consistent(self)

\* intersection_update that removes two neighbours and keeps an element.
C14_Witness ==
  /\ op = "intersection_update"
  /\ arg[1].kind = "list"
  /\ Len(items) >= 1
  /\ \E i \in 1..(Len(pre.items) - 1) :
       pre.items[i] \notin Range(items) /\ pre.items[i + 1] \notin Range(items)

\* C15: after symmetric_difference_update(other), other not being self, the
\* sequence is the one symmetric_difference(other) returns on the state
\* before the call: the elements of old self not in other, then the
\* elements of other not in old self.
C15_SymmetricDifferenceUpdate ==
  (op = "symmetric_difference_update" /\ arg[1].kind = "list") =>
    LET o == arg[1].elems
        n == Cardinality(Range(pre.items) \ Range(o))
    IN /\ items = symmetric_difference(pre, arg[1]).items
       /\ IsFirstOccurrences(SubSeq(items, 1, n), pre.items, Keys \ Range(o))
       /\ IsFirstOccurrences(SubSeq(items, n + 1, Len(items)), o,
                             Keys \ Range(pre.items))
       /\ Len(items) = n + Cardinality(Range(o) \ Range(pre.items))
       /\ Consistent(self)

\* Elements are discarded, kept and added in one call.
C15_Witness ==
  /\ op = "symmetric_difference_update"
  /\ arg[1].kind = "list"
  /\ Range(pre.items) \cap Range(arg[1].elems) # {}
  /\ Range(pre.items) \ Range(arg[1].elems) # {}
  /\ Range(arg[1].elems) \ Range(pre.items) # {}

\* The methods that change the container they are called on.
Mutators ==
  {"add", "update", "discard", "remove", "pop", "clear", "difference_update",
   "intersection_update", "symmetric_difference_update"}

\* The elements the call removed that sat below the index i.
RemovedBelow(i) ==
  {f \in DOMAIN pre.map \ DOMAIN map : pre.map[f] < i}

\* C18: in a single mutation, an element that is in the container before
\* and after the call has its index lowered by the number of elements the
\* call removed from lower indices; add and update change the index of no
\* element already present, and no index increases.
C18_IndexShift ==
  op \in Mutators =>
    /\ \A e \in DOMAIN map \cap DOMAIN pre.map :
         /\ map[e] = pre.map[e] - Cardinality(RemovedBelow(pre.map[e]))
         /\ map[e] <= pre.map[e]
    /\ op \in {"add", "update"} =>
         \A e \in DOMAIN pre.map : e \in DOMAIN map /\ map[e] = pre.map[e]

\* One call removes two elements below a third, and also an element above
\* another that stays where it was.
C18_Witness ==
  /\ op \in Mutators
  /\ \E e \in DOMAIN map \cap DOMAIN pre.map :
       /\ Cardinality(RemovedBelow(pre.map[e])) = 2
       /\ map[e] = pre.map[e] - 2

\* C20: difference_update and symmetric_difference_update given the
\* container itself discard every element: the container is empty after
\* the call.
C20_SelfArgumentEmpties ==
  (op \in {"difference_update", "symmetric_difference_update"} /\ arg = <<Self>>) =>
    items = <<>> /\ map = EmptyMap

\* C16: issubset(other) is true exactly when every element of self is an
\* element of other, and issuperset(other) exactly when every element of
\* other is an element of self, also when other repeats elements.
C16_SubsetSuperset ==
  /\ op = "issubset" => ret.val = <<Range(items) \subseteq Range(arg[1].elems)>>
  /\ op = "issuperset" => ret.val = <<Range(arg[1].elems) \subseteq Range(items)>>

\* C17: deserializing the serialized state of a container gives a container
\* with the same sequence, for the empty container and for the one that
\* holds just None too; the empty container, and no other, serializes to
\* the empty marker.
C17_RoundTrip ==
  /\ op = "getstate" => ((ret.val = <<EmptyMarker>>) = (items = <<>>))
  /\ op = "setstate" => /\ ret.out.items = items
                        /\ ret.out.map = map
                        /\ Consistent(ret.out)

\* The container that holds just None went through the round trip.
C17_Witness ==
  /\ op = "setstate"
  /\ items = <<NoneKey>>
  /\ arg[1] # EmptyMarker
  /\ ret.out.items = <<NoneKey>>

====
